---- MODULE Spec2Model ----
(***************************************************************************)
(* Crossword constraint-satisfaction solver (crossword/generate.py):       *)
(* node consistency, AC-3, and heuristic backtracking search; and the       *)
(* knowledge base of the Minesweeper AI (minesweeper/minesweeper.py).       *)
(*                                                                         *)
(* A word is a sequence of letters; Python's 0-based index w[i] is w[i+1]. *)
(* A slot (Variable) is a record [i, j, direction, length].                *)
(* A dict is a sequence of <<key, value>> pairs in insertion order.        *)
(***************************************************************************)
EXTENDS Integers, Sequences, FiniteSets, TLC

VARIABLES
    variables,   \* crossword.variables: the set of slots of the puzzle
    words,       \* crossword.words: the word list
    domains,     \* self.domains: slot -> set of words
    pc,          \* position of the running call
    arcs,        \* the arcs argument of the running ac3 call (None: not given)
    queue,       \* the work queue of ac3
    ac3ret,      \* value returned by ac3 (None while it has not returned)
    stack,       \* call stack of backtrack: one frame per active call
    heap,        \* the dict objects the frames refer to: ref -> dict
    ret,         \* value returned by the last finished call
    call,        \* the last direct call of revise / consistent and its outcome
    searches     \* number of backtrack calls made so far

\* minesweeper.py
VARIABLES
    board,       \* Minesweeper.mines: the cells of the board that hold a mine
    moves_made,  \* MinesweeperAI.moves_made
    mines,       \* MinesweeperAI.mines
    safes,       \* MinesweeperAI.safes
    knowledge,   \* MinesweeperAI.knowledge: the list of sentences
    move,        \* value returned by make_safe_move, when it was the last call
    added,       \* number of add_knowledge calls made so far
    game         \* "none", "playing", or "hung": update_knowledge does not return

msVars == <<board, moves_made, mines, safes, knowledge, move, added, game>>

cwVars == <<variables, words, domains, pc, arcs, queue, ac3ret, stack, heap, ret,
            call, searches>>

vars == <<variables, words, domains, pc, arcs, queue, ac3ret, stack, heap, ret,
          call, searches, msVars>>

\* ------------------------------------------------------------------ bounds
MaxSlots == 3
MaxWords == 3
MaxCalls == 2
MaxArcs == 1
MsHeight == 2
MsWidth == 3
MaxMoves == 3
MaxKnowledge == 12

\* ------------------------------------------------------------- input sets
\* An optional value is a sequence of length at most one: None is <<>>.
None == <<>>
Some(x) == <<x>>
NoError == "no error"
TypeError == "TypeError"
IndexError == "IndexError"
ACROSS == "across"
DOWN == "down"

Slot(i, j, d, n) == [i |-> i, j |-> j, direction |-> d, length |-> n]

\* The slots of a structure: a slot of length 3 across the top, a slot of
\* length 3 down from its first cell and a slot of length 2 down from its last
\* cell; below them a slot of length 2 across, crossed at its last cell by a
\* slot of length 3 down.
SlotUniverse ==
    { Slot(0, 0, ACROSS, 3), Slot(0, 0, DOWN, 3), Slot(0, 2, DOWN, 2),
      Slot(4, 0, ACROSS, 2), Slot(4, 1, DOWN, 3) }

WordUniverse ==
    { <<"A","A","B">>, <<"A","B","A">>, <<"B","A","A">>,
      <<"A","B">>, <<"B","A">>, <<"B","B">> }

Puzzles == { P \in SUBSET SlotUniverse : Cardinality(P) <= MaxSlots }
WordLists == { W \in SUBSET WordUniverse : Cardinality(W) <= MaxWords }

\* ---------------------------------------------------------------- helpers
Range(s) == { s[k] : k \in 1..Len(s) }

\* All the orders in which a set can be iterated.
Perms(S) ==
    { s \in [1..Cardinality(S) -> S] : \A a, b \in 1..Cardinality(S) : a # b => s[a] # s[b] }

\* ------------------------------------------------ crossword.py (structure)
\* The cells a slot covers, in order.
Cells(v) ==
    [k \in 1..v.length |->
        <<v.i + (IF v.direction = DOWN THEN k - 1 ELSE 0),
          v.j + (IF v.direction = ACROSS THEN k - 1 ELSE 0)>>]

\* The overlap of two slots computed from their cells: None, or the 0-based
\* offsets <<i, j>> of the shared cell.
CellOverlap(x, y) ==
    IF Range(Cells(x)) \cap Range(Cells(y)) = {}
    THEN None
    ELSE LET c == CHOOSE c \in Range(Cells(x)) \cap Range(Cells(y)) : TRUE
             i == CHOOSE k \in 1..x.length : Cells(x)[k] = c
             j == CHOOSE k \in 1..y.length : Cells(y)[k] = c
         IN  <<i - 1, j - 1>>

\* crossword.overlaps: the table of overlaps, computed once for the structure.
OverlapTable == [x \in SlotUniverse |-> [y \in SlotUniverse |-> CellOverlap(x, y)]]

\* crossword.overlaps[x, y]
Overlaps(x, y) == OverlapTable[x][y]

\* crossword.neighbors(var)
Neighbors(V, var) == { v \in V : v # var /\ Overlaps(v, var) # None }

\* ------------------------------------------------------------ generate.py
\* __init__: every slot starts with a copy of the whole word list.
InitDomains(V, W) == [v \in V |-> W]

\* enforce_node_consistency with ">" written for "!=" on line 100.
NodeConsistentLonger(dom) ==
    [v \in DOMAIN dom |->
        dom[v] \ { word \in dom[v] : Len(word) > v.length }]

\* enforce_node_consistency
NodeConsistent(dom) ==
    [v \in DOMAIN dom |->
        dom[v] \ { word \in dom[v] : Len(word) # v.length }]

\* No Minesweeper game is being played.
NoGame ==
    /\ board = {}
    /\ moves_made = {}
    /\ mines = {}
    /\ safes = {}
    /\ knowledge = <<>>
    /\ move = None
    /\ added = 0
    /\ game = "none"

NoCall == [op |-> "none"]

InitSolve ==
    /\ variables \in Puzzles
    /\ words \in WordLists
    /\ domains = InitDomains(variables, words)
    /\ pc = "solve"
    /\ arcs = None
    /\ queue = <<>>
    /\ ac3ret = None
    /\ stack = <<>>
    /\ heap = <<>>
    /\ ret = None
    /\ call = NoCall
    /\ searches = 0
    /\ NoGame

\* solve, line 93: self.enforce_node_consistency()
EnforceNodeConsistency ==
    /\ pc = "solve"
    /\ domains' = NodeConsistent(domains)
    /\ pc' = "ac3"
    /\ UNCHANGED <<msVars, variables, words, arcs, queue, ac3ret, stack, heap, ret, call, searches>>

\* revise with "all" written for "any" on line 111.
ReviseAll(dom, x, y) ==
    LET o == Overlaps(x, y) IN
    IF o = None
    THEN [domains |-> dom, revised |-> FALSE, raised |-> TypeError]
    ELSE LET to_remove == { x_word \in dom[x] :
                              ~ \A y_word \in dom[y] : x_word[o[1] + 1] = y_word[o[2] + 1] }
         IN  [domains |-> IF to_remove # {} THEN [dom EXCEPT ![x] = @ \ to_remove] ELSE dom,
              revised |-> to_remove # {},
              raised  |-> NoError]

\* revise with line 115 outside the "if to_remove:" of line 113.
ReviseFlag(dom, x, y) ==
    LET o == Overlaps(x, y) IN
    IF o = None
    THEN [domains |-> dom, revised |-> FALSE, raised |-> TypeError]
    ELSE LET to_remove == { x_word \in dom[x] :
                              ~ \E y_word \in dom[y] : x_word[o[1] + 1] = y_word[o[2] + 1] }
         IN  [domains |-> IF to_remove # {} THEN [dom EXCEPT ![x] = @ \ to_remove] ELSE dom,
              revised |-> TRUE,
              raised  |-> NoError]

\* revise(x, y): the domains it leaves, the value it returns, the exception it
\* raises. Unpacking the overlap of two slots that do not overlap (None)
\* raises TypeError. The words of domains[x] and domains[y] have the lengths of
\* their slots, so the offsets index inside them.
Revise(dom, x, y) ==
    LET o == Overlaps(x, y) IN
    IF o = None
    THEN [domains |-> dom, revised |-> FALSE, raised |-> TypeError]
    ELSE LET i == o[1]
             j == o[2]
             to_remove == { x_word \in dom[x] :
                              ~ \E y_word \in dom[y] : x_word[i + 1] = y_word[j + 1] }
         IN  [domains |-> IF to_remove # {} THEN [dom EXCEPT ![x] = @ \ to_remove] ELSE dom,
              revised |-> to_remove # {},
              raised  |-> NoError]

\* The orders in which line 120's comprehension can list the arcs: the slots
\* in the iteration order of the domains dict, and for each slot its
\* neighbors in the iteration order of the neighbors set.
RECURSIVE ArcsFrom(_, _, _)
ArcsFrom(V, xs, k) ==
    IF k > Len(xs) THEN { <<>> }
    ELSE { [n \in 1..Len(ys) |-> <<xs[k], ys[n]>>] \o rest :
             ys \in Perms(Neighbors(V, xs[k])), rest \in ArcsFrom(V, xs, k + 1) }

ArcOrders(V) == UNION { ArcsFrom(V, xs, 1) : xs \in Perms(V) }

\* ac3, line 120: the queue is seeded with the given arcs when that
\* collection is truthy (given and not empty), and with every arc otherwise.
SeedQueues(V, given) ==
    IF given # None /\ Len(given[1]) > 0 THEN { given[1] } ELSE ArcOrders(V)

\* ac3 without lines 126-127.
RequeueNone(V, x, y) == { <<>> }

\* ac3, lines 126-127: the arcs appended after x was revised against y, in the
\* iteration order of the set neighbors(x) - {y}.
Requeue(V, x, y) ==
    { [k \in 1..Len(zs) |-> <<zs[k], x>>] : zs \in Perms(Neighbors(V, x) \ {y}) }

\* solve, line 94: self.ac3(), up to the seeding of its queue
Ac3Start ==
    /\ pc = "ac3"
    /\ queue' \in SeedQueues(variables, arcs)
    /\ pc' = "ac3_loop"
    /\ UNCHANGED <<msVars, variables, words, domains, arcs, ac3ret, stack, heap, ret, call, searches>>

\* ac3, lines 121-127: one turn of the while loop
Ac3Step ==
    /\ pc = "ac3_loop"
    /\ queue # <<>>
    /\ LET x == Head(queue)[1]
           y == Head(queue)[2]
           r == Revise(domains, x, y)
       IN  /\ domains' = r.domains
           /\ IF r.raised # NoError
              THEN /\ pc' = r.raised
                   /\ queue' = Tail(queue)
                   /\ UNCHANGED <<ac3ret, ret>>
              ELSE IF r.revised /\ Cardinality(r.domains[x]) = 0
              THEN /\ ac3ret' = Some(FALSE)
                   /\ pc' = "ac3_done"
                   /\ queue' = Tail(queue)
                   /\ UNCHANGED ret
              ELSE IF r.revised
              THEN /\ \E more \in Requeue(variables, x, y) :
                         queue' = Tail(queue) \o more
                   /\ UNCHANGED <<pc, ac3ret, ret>>
              ELSE /\ queue' = Tail(queue)
                   /\ UNCHANGED <<pc, ac3ret, ret>>
    /\ UNCHANGED <<msVars, variables, words, arcs, stack, heap, call, searches>>

\* ac3, line 128: the queue is exhausted
Ac3Exhausted ==
    /\ pc = "ac3_loop"
    /\ queue = <<>>
    /\ ac3ret' = Some(TRUE)
    /\ pc' = "ac3_done"
    /\ UNCHANGED <<msVars, variables, words, domains, arcs, queue, stack, heap, ret, call, searches>>

\* ------------------------------------------------------------ dicts
Keys(a) == { a[k][1] : k \in 1..Len(a) }
Get(a, key) == a[CHOOSE k \in 1..Len(a) : a[k][1] = key][2]

\* a[key] = value: a present key keeps its place, a new key goes last.
DictSet(a, key, value) ==
    IF key \in Keys(a)
    THEN [k \in 1..Len(a) |-> IF a[k][1] = key THEN <<key, value>> ELSE a[k]]
    ELSE Append(a, <<key, value>>)

Store(h, ref, d) == IF ref <= Len(h) THEN [h EXCEPT ![ref] = d] ELSE Append(h, d)

\* backtrack with "new_assignment = assignment" on line 178: no new object.
AliasAssignment(h, ref, fresh) == [heap |-> h, ref |-> ref]

\* backtrack, line 178: new_assignment = assignment.copy(), a new dict object
\* at the reference fresh.
CopyAssignment(h, ref, fresh) == [heap |-> Store(h, fresh, h[ref]), ref |-> fresh]

\* assignment_complete
AssignmentComplete(V, a) == \A var \in V : var \in Keys(a)

\* consistent without lines 146-150.
RECURSIVE ConsistentFromNoNeighbors(_, _, _, _)
ConsistentFromNoNeighbors(V, a, k, seen) ==
    IF k > Len(a) THEN { "True" }
    ELSE IF Len(a[k][2]) # a[k][1].length THEN { "False" }
    ELSE IF a[k][2] \in seen THEN { "False" }
    ELSE ConsistentFromNoNeighbors(V, a, k + 1, seen \cup {a[k][2]})

\* consistent without lines 142-144.
RECURSIVE ConsistentFromNoUnique(_, _, _, _)
ConsistentFromNoUnique(V, a, k, seen) ==
    IF k > Len(a) THEN { "True" }
    ELSE LET var  == a[k][1]
             word == a[k][2]
             assigned == Neighbors(V, var) \cap Keys(a)
             short == { n \in assigned : Overlaps(var, n)[2] >= Len(Get(a, n)) }
             differ == { n \in assigned \ short :
                           word[Overlaps(var, n)[1] + 1] # Get(a, n)[Overlaps(var, n)[2] + 1] }
         IN  IF Len(word) # var.length THEN { "False" }
             ELSE IF short # {} \/ differ # {}
             THEN { IndexError : n \in short } \cup { "False" : n \in differ }
             ELSE ConsistentFromNoUnique(V, a, k + 1, seen)

\* consistent with line 144 (words.add) placed before the test of line 142.
RECURSIVE ConsistentFromAddFirst(_, _, _, _)
ConsistentFromAddFirst(V, a, k, seen) ==
    IF k > Len(a) THEN { "True" }
    ELSE IF Len(a[k][2]) # a[k][1].length THEN { "False" }
    ELSE IF a[k][2] \in seen \cup {a[k][2]} THEN { "False" }
    ELSE ConsistentFromAddFirst(V, a, k + 1, seen \cup {a[k][2]})

\* consistent: the outcomes the call can have, True, False or IndexError.
\* The entries are visited in the dict's order; the neighbors of an entry are
\* visited in the iteration order of a set, so when one assigned neighbor
\* disagrees and the word of another is too short for its offset, either
\* outcome is possible.
RECURSIVE ConsistentFrom(_, _, _, _)
ConsistentFrom(V, a, k, seen) ==
    IF k > Len(a) THEN { "True" }
    ELSE LET var  == a[k][1]
             word == a[k][2]
             assigned == Neighbors(V, var) \cap Keys(a)
             short == { n \in assigned : Overlaps(var, n)[2] >= Len(Get(a, n)) }
             differ == { n \in assigned \ short :
                           word[Overlaps(var, n)[1] + 1] # Get(a, n)[Overlaps(var, n)[2] + 1] }
         IN  IF Len(word) # var.length THEN { "False" }
             ELSE IF word \in seen THEN { "False" }
             ELSE IF short # {} \/ differ # {}
             THEN { IndexError : n \in short } \cup { "False" : n \in differ }
             ELSE ConsistentFrom(V, a, k + 1, seen \cup {word})

Consistent(V, a) == ConsistentFrom(V, a, 1, {})

RECURSIVE SumOver(_, _)
SumOver(S, f) ==
    IF S = {} THEN 0
    ELSE LET e == CHOOSE e \in S : TRUE IN f[e] + SumOver(S \ {e}, f)

\* order_domain_values.constraint_count
ConstraintCount(V, dom, var, a, value) ==
    LET unassigned == Neighbors(V, var) \ Keys(a)
        ruled == [neighbor \in unassigned |->
                    Cardinality({ neighbor_word \in dom[neighbor] :
                        neighbor_word[Overlaps(var, neighbor)[2] + 1]
                            # value[Overlaps(var, neighbor)[1] + 1] })]
    IN  SumOver(unassigned, ruled)

\* order_domain_values: sorted() is stable, so words of equal count keep the
\* iteration order of the domain set, which is any order.
OrderDomainValues(V, dom, var, a) ==
    { s \in Perms(dom[var]) :
        \A p, q \in 1..Len(s) :
            p < q => ConstraintCount(V, dom, var, a, s[p]) <= ConstraintCount(V, dom, var, a, s[q]) }

\* select_unassigned_variable with the minus sign of line 169 left out.
SelectFewestNeighbors(V, dom, a) ==
    LET unassigned_vars == { var \in V : var \notin Keys(a) }
        Less(u, v) == \/ Cardinality(dom[u]) < Cardinality(dom[v])
                      \/ /\ Cardinality(dom[u]) = Cardinality(dom[v])
                         /\ Cardinality(Neighbors(V, u)) < Cardinality(Neighbors(V, v))
    IN  { var \in unassigned_vars : \A other \in unassigned_vars : ~ Less(other, var) }

\* select_unassigned_variable: min() returns the first minimal slot of a list
\* built in set iteration order, so any slot of minimal key.
SelectUnassignedVariable(V, dom, a) ==
    LET unassigned_vars == { var \in V : var \notin Keys(a) }
        Less(u, v) == \/ Cardinality(dom[u]) < Cardinality(dom[v])
                      \/ /\ Cardinality(dom[u]) = Cardinality(dom[v])
                         /\ - Cardinality(Neighbors(V, u)) < - Cardinality(Neighbors(V, v))
    IN  { var \in unassigned_vars : \A other \in unassigned_vars : ~ Less(other, var) }

\* "if result:" - None and the empty dict are falsy.
Truthy(r) == r # None /\ Len(r[1]) > 0

Frame(ref, a) ==
    [asg |-> ref, entry |-> a, at |-> "enter", var |-> None, values |-> <<>>, idx |-> 0]

Top == stack[Len(stack)]
SetTop(f) == [stack EXCEPT ![Len(stack)] = f]
Pop == SubSeq(stack, 1, Len(stack) - 1)

\* solve, line 95: return self.backtrack(dict()); the result of ac3 is not looked at
SolveBacktrack ==
    /\ pc = "ac3_done"
    /\ heap' = << <<>> >>
    /\ stack' = << Frame(1, <<>>) >>
    /\ searches' = searches + 1
    /\ pc' = "backtrack"
    /\ UNCHANGED <<msVars, variables, words, domains, arcs, queue, ac3ret, ret, call>>

\* backtrack, lines 174-175: a complete assignment is returned
BtComplete ==
    /\ pc = "backtrack" /\ Top.at = "enter"
    /\ AssignmentComplete(variables, heap[Top.asg])
    /\ ret' = Some(heap[Top.asg])
    /\ stack' = Pop
    /\ pc' = IF Len(stack) = 1 THEN "done" ELSE pc
    /\ UNCHANGED <<msVars, variables, words, domains, arcs, queue, ac3ret, heap, call, searches>>

\* backtrack, lines 176-177: pick the slot and order its values
BtSelect ==
    /\ pc = "backtrack" /\ Top.at = "enter"
    /\ ~ AssignmentComplete(variables, heap[Top.asg])
    /\ \E var \in SelectUnassignedVariable(variables, domains, heap[Top.asg]) :
       \E values \in OrderDomainValues(variables, domains, var, heap[Top.asg]) :
          stack' = SetTop([Top EXCEPT !.at = "loop", !.var = Some(var),
                                      !.values = values, !.idx = 1])
    /\ UNCHANGED <<msVars, variables, words, domains, pc, arcs, queue, ac3ret, heap, ret, call, searches>>

\* backtrack, lines 178-181: try the next value (all but the domains)
TryValue ==
    /\ pc = "backtrack" /\ Top.at = "loop"
    /\ Top.idx <= Len(Top.values)
    /\ LET var   == Top.var[1]
           value == Top.values[Top.idx]
           c     == CopyAssignment(heap, Top.asg, Len(stack) + 1)
           h     == [c.heap EXCEPT ![c.ref] = DictSet(@, var, value)]
       IN  /\ heap' = h
           /\ \E outcome \in Consistent(variables, h[c.ref]) :
                /\ call' = [op |-> "try", assignment |-> h[c.ref],
                            base |-> Top.entry, var |-> var, value |-> value,
                            outcome |-> outcome]
                /\ IF outcome = "True"
                   THEN /\ stack' = Append(SetTop([Top EXCEPT !.at = "await"]),
                                           Frame(c.ref, h[c.ref]))
                        /\ searches' = searches + 1
                        /\ pc' = pc
                   ELSE IF outcome = "False"
                   THEN /\ stack' = SetTop([Top EXCEPT !.idx = @ + 1])
                        /\ UNCHANGED <<searches, pc>>
                   ELSE /\ pc' = outcome
                        /\ UNCHANGED <<stack, searches>>
    /\ UNCHANGED <<msVars, variables, words, arcs, queue, ac3ret, ret>>

\* backtrack with forward checking: the tried value becomes the slot's domain.
BtTryForwardChecking ==
    TryValue /\ domains' = [domains EXCEPT ![Top.var[1]] = {Top.values[Top.idx]}]

\* backtrack, lines 178-181: trying a value leaves the domains alone
BtTry == TryValue /\ UNCHANGED domains

\* backtrack, lines 182-183: the recursive call has returned
BtResume ==
    /\ pc = "backtrack" /\ Top.at = "await"
    /\ IF Truthy(ret)
       THEN /\ stack' = Pop
            /\ pc' = IF Len(stack) = 1 THEN "done" ELSE pc
            /\ UNCHANGED ret
       ELSE /\ stack' = SetTop([Top EXCEPT !.at = "loop", !.idx = @ + 1])
            /\ UNCHANGED <<pc, ret>>
    /\ UNCHANGED <<msVars, variables, words, domains, arcs, queue, ac3ret, heap, call, searches>>

\* backtrack, line 184: every value was tried
BtExhausted ==
    /\ pc = "backtrack" /\ Top.at = "loop"
    /\ Top.idx > Len(Top.values)
    /\ ret' = None
    /\ stack' = Pop
    /\ pc' = IF Len(stack) = 1 THEN "done" ELSE pc
    /\ UNCHANGED <<msVars, variables, words, domains, arcs, queue, ac3ret, heap, call, searches>>

Next ==
    \/ EnforceNodeConsistency
    \/ Ac3Start
    \/ Ac3Step
    \/ Ac3Exhausted
    \/ SolveBacktrack
    \/ BtComplete
    \/ BtSelect
    \/ BtTry
    \/ BtResume
    \/ BtExhausted

Spec == InitSolve /\ [][Next]_vars
\* solve() runs single-threaded to its return: a step that can be taken is taken.
SpecFair == InitSolve /\ [][Next]_vars /\ WF_vars(Next)

\* ------------------------------------------------- direct call of revise
\* revise(x, y) is called on two distinct slots of a puzzle whose domains are
\* any sets of word-list words of the slots' lengths.
InitRevise ==
    /\ variables \in { P \in Puzzles : Cardinality(P) >= 2 }
    /\ words \in WordLists
    /\ domains \in { d \in [variables -> SUBSET words] :
                       \A v \in variables : \A w \in d[v] : Len(w) = v.length }
    /\ \E x, y \in variables :
         /\ x # y
         /\ call = [op |-> "revise", x |-> x, y |-> y, before |-> domains,
                    revised |-> FALSE, raised |-> "pending"]
    /\ pc = "revise"
    /\ arcs = None
    /\ queue = <<>>
    /\ ac3ret = None
    /\ stack = <<>>
    /\ heap = <<>>
    /\ ret = None
    /\ searches = 0
    /\ NoGame

CallRevise ==
    /\ pc = "revise"
    /\ LET r == Revise(domains, call.x, call.y)
       IN  /\ domains' = r.domains
           /\ call' = [call EXCEPT !.revised = r.revised, !.raised = r.raised]
    /\ pc' = "returned"
    /\ UNCHANGED <<msVars, variables, words, arcs, queue, ac3ret, stack, heap, ret, searches>>

NextRevise == CallRevise

SpecRevise == InitRevise /\ [][NextRevise]_vars

\* --------------------------------------------- direct call of consistent
\* The dicts that give words to some of the slots, in every insertion order.
Assignments(V, W) ==
    UNION { { [k \in 1..Len(order) |-> <<order[k], ws[order[k]]>>] :
                order \in Perms(K), ws \in [K -> W] } : K \in SUBSET V }

\* consistent(assignment) is called on any assignment of words to slots.
InitConsistent ==
    /\ variables \in Puzzles
    /\ words = WordUniverse
    /\ domains = InitDomains(variables, words)
    /\ \E a \in Assignments(variables, words) :
         call = [op |-> "consistent", assignment |-> a, outcome |-> "pending"]
    /\ pc = "consistent"
    /\ arcs = None
    /\ queue = <<>>
    /\ ac3ret = None
    /\ stack = <<>>
    /\ heap = <<>>
    /\ ret = None
    /\ searches = 0
    /\ NoGame

CallConsistent ==
    /\ pc = "consistent"
    /\ \E outcome \in Consistent(variables, call.assignment) :
         call' = [call EXCEPT !.outcome = outcome]
    /\ pc' = "returned"
    /\ UNCHANGED <<msVars, variables, words, domains, arcs, queue, ac3ret, stack, heap, ret, searches>>

NextConsistent == CallConsistent

SpecConsistent == InitConsistent /\ [][NextConsistent]_vars

\* ------------------------------ direct calls of enforce_node_consistency
\* enforce_node_consistency() is called repeatedly on a new solver.
InitNode ==
    /\ variables \in Puzzles
    /\ words \in WordLists
    /\ domains = InitDomains(variables, words)
    /\ call = [op |-> "node", calls |-> 0, before |-> domains]
    /\ pc = "node"
    /\ arcs = None
    /\ queue = <<>>
    /\ ac3ret = None
    /\ stack = <<>>
    /\ heap = <<>>
    /\ ret = None
    /\ searches = 0
    /\ NoGame

CallEnforceNodeConsistency ==
    /\ pc = "node"
    /\ call.calls < MaxCalls
    /\ domains' = NodeConsistent(domains)
    /\ call' = [call EXCEPT !.calls = @ + 1, !.before = domains]
    /\ UNCHANGED <<msVars, variables, words, pc, arcs, queue, ac3ret, stack, heap, ret, searches>>

NextNode == CallEnforceNodeConsistency

SpecNode == InitNode /\ [][NextNode]_vars

\* ------------------------------ direct call of select_unassigned_variable
\* select_unassigned_variable(assignment) is called with an assignment that
\* leaves a slot out, over any domains of word-list words of the slots'
\* lengths. Only the keys of the assignment are read: each assigned slot is
\* given some word of its length.
InitSelect ==
    /\ variables \in Puzzles
    /\ words \in WordLists
    /\ domains \in { d \in [variables -> SUBSET words] :
                       \A v \in variables : \A w \in d[v] : Len(w) = v.length }
    /\ \E K \in SUBSET variables :
         /\ K # variables
         /\ LET order == CHOOSE o \in Perms(K) : TRUE
                word(v) == CHOOSE w \in WordUniverse : Len(w) = v.length
            IN  call = [op |-> "select",
                        assignment |-> [k \in 1..Len(order) |-> <<order[k], word(order[k])>>],
                        result |-> None]
    /\ pc = "select"
    /\ arcs = None
    /\ queue = <<>>
    /\ ac3ret = None
    /\ stack = <<>>
    /\ heap = <<>>
    /\ ret = None
    /\ searches = 0
    /\ NoGame

CallSelect ==
    /\ pc = "select"
    /\ \E var \in SelectUnassignedVariable(variables, domains, call.assignment) :
         call' = [call EXCEPT !.result = Some(var)]
    /\ pc' = "returned"
    /\ UNCHANGED <<msVars, variables, words, domains, arcs, queue, ac3ret, stack, heap, ret, searches>>

NextSelect == CallSelect

SpecSelect == InitSelect /\ [][NextSelect]_vars

\* ------------------------------------------------- direct call of ac3
\* The lists of at most MaxArcs arcs over the slots of a puzzle.
ArcLists(V) ==
    UNION { [1..n -> { a \in V \X V : a[1] # a[2] }] : n \in 0..MaxArcs }

\* ac3(arcs) is called after node consistency, with no arcs argument or with
\* a list of arcs.
InitAc3 ==
    /\ variables \in Puzzles
    /\ words \in WordLists
    /\ domains = NodeConsistent(InitDomains(variables, words))
    /\ arcs \in {None} \cup { Some(l) : l \in ArcLists(variables) }
    /\ pc = "ac3"
    /\ queue = <<>>
    /\ ac3ret = None
    /\ stack = <<>>
    /\ heap = <<>>
    /\ ret = None
    /\ call = NoCall
    /\ searches = 0
    /\ NoGame

NextAc3 == Ac3Start \/ Ac3Step \/ Ac3Exhausted

SpecAc3 == InitAc3 /\ [][NextAc3]_vars

\* =========================================================== minesweeper.py
BoardCells == (0..(MsHeight - 1)) \X (0..(MsWidth - 1))

\* The cells of the board within one row and column of a cell, the cell
\* itself excluded (nearby_mines lines 65-73, add_knowledge lines 181-185).
Adjacent(cell) ==
    { c \in BoardCells :
        /\ c # cell
        /\ c[1] \in (cell[1] - 1)..(cell[1] + 1)
        /\ c[2] \in (cell[2] - 1)..(cell[2] + 1) }

\* Minesweeper.nearby_mines
NearbyMines(b, cell) == Cardinality(Adjacent(cell) \cap b)

Sentence(cells, count) == [cells |-> cells, count |-> count]

\* Sentence.known_mines
KnownMines(s) == IF Cardinality(s.cells) = s.count THEN s.cells ELSE {}

\* Sentence.known_safes
KnownSafes(s) == IF s.count = 0 THEN s.cells ELSE {}

\* Sentence.mark_mine
SentenceMarkMine(s, cell) ==
    IF cell \in s.cells THEN Sentence(s.cells \ {cell}, s.count - 1) ELSE s

\* Sentence.mark_safe
SentenceMarkSafe(s, cell) ==
    IF cell \in s.cells THEN Sentence(s.cells \ {cell}, s.count) ELSE s

\* The sentences after mark_safe / mark_mine of every cell of a set; the
\* marks of different cells commute.
RECURSIVE MarkAll(_, _, _)
MarkAll(s, cells, asMine) ==
    IF cells = {} THEN s
    ELSE LET c == CHOOSE c \in cells : TRUE
         IN  MarkAll(IF asMine THEN SentenceMarkMine(s, c) ELSE SentenceMarkSafe(s, c),
                     cells \ {c}, asMine)

\* update_knowledge, lines 217-224: the two loops run over the list while
\* sentences are appended to it, so appended sentences are visited too. The
\* loops never end once a sentence without cells and with a count other than
\* zero is appended; the list is cut off when it is longer than MaxKnowledge.
RECURSIVE Infer(_, _, _)
Infer(K, p, q) ==
    IF Len(K) > MaxKnowledge \/ p > Len(K) THEN K
    ELSE IF q > Len(K) THEN Infer(K, p + 1, 1)
    ELSE LET sentence1 == K[p]
             sentence2 == K[q]
             new_sentence == Sentence(sentence2.cells \ sentence1.cells,
                                      sentence2.count - sentence1.count)
         IN  IF /\ sentence1 # sentence2
                /\ sentence1.cells \subseteq sentence2.cells
                /\ new_sentence \notin Range(K)
             THEN Infer(Append(K, new_sentence), p, q + 1)
             ELSE Infer(K, p, q + 1)

\* update_knowledge: the safes, the mines and the knowledge it leaves.
UpdateKnowledge(S, M, K) ==
    LET all_safes == UNION { KnownSafes(K[k]) : k \in 1..Len(K) }
        all_mines == UNION { KnownMines(K[k]) : k \in 1..Len(K) }
        marked == [k \in 1..Len(K) |->
                     MarkAll(MarkAll(K[k], all_safes, FALSE), all_mines, TRUE)]
        kept == SelectSeq(marked, LAMBDA s : Cardinality(s.cells) > 0)
    IN  [safes |-> S \cup all_safes,
         mines |-> M \cup all_mines,
         knowledge |-> Infer(kept, 1, 1)]

\* A game on any board; the AI knows nothing yet.
InitMinesweeper ==
    /\ board \in SUBSET BoardCells
    /\ moves_made = {}
    /\ mines = {}
    /\ safes = {}
    /\ knowledge = <<>>
    /\ move = None
    /\ added = 0
    /\ game = "playing"
    /\ variables = {}
    /\ words = {}
    /\ domains = InitDomains(variables, words)
    /\ pc = "minesweeper"
    /\ arcs = None
    /\ queue = <<>>
    /\ ac3ret = None
    /\ stack = <<>>
    /\ heap = <<>>
    /\ ret = None
    /\ call = NoCall
    /\ searches = 0

\* add_knowledge(cell, count) for a cell that holds no mine, with its true count
AddKnowledge ==
    /\ game = "playing"
    /\ added < MaxMoves
    /\ \E cell \in BoardCells \ board :
         LET count == NearbyMines(board, cell)
             safes1 == safes \cup {cell}
             knowledge1 == [k \in 1..Len(knowledge) |-> SentenceMarkSafe(knowledge[k], cell)]
             neighbors == { n \in Adjacent(cell) : n \notin safes1 /\ n \notin mines }
             knowledge2 == IF neighbors # {}
                           THEN Append(knowledge1, Sentence(neighbors, count))
                           ELSE knowledge1
             u == UpdateKnowledge(safes1, mines, knowledge2)
         IN  /\ moves_made' = moves_made \cup {cell}
             /\ safes' = u.safes
             /\ mines' = u.mines
             /\ knowledge' = u.knowledge
             /\ game' = IF Len(u.knowledge) > MaxKnowledge THEN "hung" ELSE "playing"
    /\ added' = added + 1
    /\ move' = None
    /\ UNCHANGED <<board, cwVars>>

\* make_safe_move: pop() returns any cell of the set, None when it is empty
MakeSafeMove ==
    /\ game = "playing"
    /\ LET possible_moves == safes \ moves_made
       IN  IF possible_moves # {}
           THEN \E c \in possible_moves : move' = Some(c)
           ELSE move' = None
    /\ UNCHANGED <<board, moves_made, mines, safes, knowledge, added, game, cwVars>>

NextMinesweeper == AddKnowledge \/ MakeSafeMove

SpecMinesweeper == InitMinesweeper /\ [][NextMinesweeper]_vars

\* ================================================================ claims
Done == pc = "done"

\* The words an assignment gives to the slots are of the word list and of the
\* slots' lengths, agree where slots overlap, and are pairwise distinct.
ValidComplete(V, W, a) ==
    /\ Keys(a) = V
    /\ Len(a) = Cardinality(V)
    /\ \A k \in 1..Len(a) : a[k][2] \in W /\ Len(a[k][2]) = a[k][1].length
    /\ \A k, l \in 1..Len(a) :
         k # l => /\ a[k][2] # a[l][2]
                  /\ Overlaps(a[k][1], a[l][1]) # None =>
                       a[k][2][Overlaps(a[k][1], a[l][1])[1] + 1]
                         = a[l][2][Overlaps(a[k][1], a[l][1])[2] + 1]

\* The complete assignments that meet every constraint.
Solutions(V, W) ==
    { f \in [V -> W] :
        /\ \A v \in V : Len(f[v]) = v.length
        /\ \A x, y \in V :
             x # y => /\ f[x] # f[y]
                      /\ Overlaps(x, y) # None =>
                           f[x][Overlaps(x, y)[1] + 1] = f[y][Overlaps(x, y)[2] + 1] }

\* C1: whenever solve() returns an assignment, it gives every slot a word of
\* the word list of the slot's length, overlapping slots agree on the shared
\* letter, and no two slots hold the same word.
C1_SolveReturnsValid ==
    (Done /\ ret # None) => ValidComplete(variables, words, ret[1])

C1_Witness ==
    /\ Done /\ ret # None
    /\ \E x, y \in variables : x # y /\ Overlaps(x, y) # None

\* C2: solve() returns none exactly when no complete assignment meets the
\* length, overlap and distinctness constraints.
C2_NoneIffNoSolution ==
    Done => ((ret = None) <=> (Solutions(variables, words) = {}))

\* ac3 succeeded with every domain non-empty, and the search was exhausted.
C2_Witness ==
    /\ Done /\ ret = None
    /\ ac3ret = Some(TRUE)
    /\ variables # {}
    /\ \A v \in variables : domains[v] # {}

\* C3: after ac3 has returned false, solve() returns none at once and
\* backtrack is never called.
C3_NoSearchAfterFailedAc3 ==
    ac3ret = Some(FALSE) => (searches = 0 /\ stack = <<>>)

\* C4: ac3() with no initial arcs returns false exactly when some slot's
\* domain is empty at the end of the pass.
C4_Ac3FalseIffEmptyDomain ==
    pc = "ac3_done" =>
        ((ac3ret = Some(FALSE)) <=> (\E v \in variables : domains[v] = {}))

ArcConsistent(V, dom) ==
    \A x \in V : \A y \in Neighbors(V, x) : \A w \in dom[x] :
        \E w2 \in dom[y] : w[Overlaps(x, y)[1] + 1] = w2[Overlaps(x, y)[2] + 1]

\* C5: if ac3() returns true, every word of every slot's domain has a word in
\* each neighbor's domain that agrees with it at the overlap.
C5_ArcConsistentOnSuccess ==
    ac3ret = Some(TRUE) => ArcConsistent(variables, domains)

\* ac3 succeeded after pruning a slot that has a neighbor and words left.
C5_Witness ==
    /\ pc = "ac3_done" /\ ac3ret = Some(TRUE)
    /\ \E x \in variables :
         /\ Neighbors(variables, x) # {}
         /\ domains[x] # {}
         /\ domains[x] # NodeConsistent(InitDomains(variables, words))[x]

\* C7: backtrack never changes the assignment it was given; every value is
\* checked and recursed on the caller's assignment plus that one entry.
C7_BranchIsolation ==
    /\ \A k \in 1..Len(stack) :
         /\ heap[stack[k].asg] = stack[k].entry
         /\ k > 1 => stack[k].entry =
                Append(stack[k-1].entry,
                       <<stack[k-1].var[1], stack[k-1].values[stack[k-1].idx]>>)
    /\ call.op = "try" =>
         call.assignment = Append(call.base, <<call.var, call.value>>)

\* A second value of the first slot is recursed on after a branch two levels
\* deeper was abandoned.
C7_Witness ==
    /\ Len(stack) = 2
    /\ stack[1].idx >= 2
    /\ Len(heap) >= 3

\* C8: every domain only shrinks, and once backtrack has been called no
\* domain changes at all.
C8_DomainsShrinkThenFrozen ==
    [][ /\ \A v \in variables : domains'[v] \subseteq domains[v]
        /\ searches > 0 => domains' = domains ]_vars

\* The search ran over domains that the consistency passes had pruned.
C8_Witness ==
    /\ Done /\ searches >= 3
    /\ \E v \in variables :
         domains[v] # NodeConsistent(InitDomains(variables, words))[v]

LengthsMatch(a) == \A k \in 1..Len(a) : Len(a[k][2]) = a[k][1].length

WordsDistinct(a) == \A k, l \in 1..Len(a) : k # l => a[k][2] # a[l][2]

\* Both words of every pair of assigned neighbors have a letter at their
\* overlap offset, and the two letters are equal.
OverlapsAgree(V, a) ==
    \A k, l \in 1..Len(a) :
        a[l][1] \in Neighbors(V, a[k][1]) =>
            LET o == Overlaps(a[k][1], a[l][1])
            IN  /\ o[1] < Len(a[k][2])
                /\ o[2] < Len(a[l][2])
                /\ a[k][2][o[1] + 1] = a[l][2][o[2] + 1]

ConsistentReturned == call.op = "consistent" /\ pc = "returned"

\* C6: consistent(assignment) returns true if and only if every assigned word
\* has its slot's length, no two slots hold the same word, and assigned
\* neighbors agree at their overlap; each violation alone makes it return false.
C6_ConsistentIffThree ==
    ConsistentReturned =>
        LET a == call.assignment
            L == LengthsMatch(a)
            D == WordsDistinct(a)
            O == OverlapsAgree(variables, a)
        IN  /\ (call.outcome = "True") <=> (L /\ D /\ O)
            /\ ((~L /\ D /\ O) \/ (L /\ ~D /\ O) \/ (L /\ D /\ ~O)) =>
                   call.outcome = "False"

\* Two slots hold the same word and nothing else is wrong: false is returned.
C6_Witness ==
    /\ ConsistentReturned
    /\ call.outcome = "False"
    /\ LengthsMatch(call.assignment)
    /\ OverlapsAgree(variables, call.assignment)
    /\ ~ WordsDistinct(call.assignment)

ReviseReturned == call.op = "revise" /\ pc = "returned"

\* C9: revise(x, y) on two slots that do not overlap changes no domain,
\* returns false and raises no error.
C9_ReviseNoOverlapIsNoOp ==
    (ReviseReturned /\ Overlaps(call.x, call.y) = None) =>
        /\ call.raised = NoError
        /\ call.revised = FALSE
        /\ domains = call.before

\* The words of domain[x] that no word of domain[y] agrees with at the overlap.
Unsupported(dom, x, y) ==
    { w \in dom[x] :
        \A w2 \in dom[y] : w[Overlaps(x, y)[1] + 1] # w2[Overlaps(x, y)[2] + 1] }

\* C10: for overlapping x and y, revise(x, y) removes from domain[x] exactly
\* the words no word of domain[y] agrees with at the overlap, changes no
\* other domain, and returns true if and only if domain[x] lost a word.
C10_ReviseRemovesUnsupported ==
    (ReviseReturned /\ Overlaps(call.x, call.y) # None) =>
        /\ call.raised = NoError
        /\ domains[call.x] = call.before[call.x] \ Unsupported(call.before, call.x, call.y)
        /\ \A v \in variables \ {call.x} : domains[v] = call.before[v]
        /\ call.revised <=> (domains[call.x] # call.before[call.x])

\* revise removed a word of domain[x] and kept another.
C10_Witness ==
    /\ ReviseReturned /\ Overlaps(call.x, call.y) # None
    /\ call.revised
    /\ domains[call.x] # {}
    /\ domains[call.x] # call.before[call.x]

\* C11: after enforce_node_consistency every slot's domain holds exactly the
\* word-list words of the slot's length, and a second call changes no domain.
C11_NodeConsistencyIdempotent ==
    (call.op = "node" /\ call.calls >= 1) =>
        /\ \A v \in variables :
             /\ \A w \in domains[v] : Len(w) = v.length
             /\ \A w \in words : Len(w) = v.length => w \in domains[v]
        /\ call.calls >= 2 => domains = call.before

\* A second call was made on a puzzle where the first had removed a word and
\* kept another.
C11_Witness ==
    /\ call.op = "node" /\ call.calls = 2
    /\ \E v \in variables : domains[v] # {} /\ domains[v] # words

\* No slot of the puzzle overlaps another.
Disconnected == \A x, y \in variables : x # y => Overlaps(x, y) = None

\* Every slot has a word of its length in the word list.
NodeNonEmpty == \A v \in variables : \E w \in words : Len(w) = v.length

DistinctLengths == \A x, y \in variables : x # y => x.length # y.length

Tried == call.op = "try"

\* C12 as stated: on a fully disconnected puzzle whose domains are all
\* non-empty after node consistency, ac3() returns true, no value tried by
\* the search is rejected, and solve() returns an assignment.
C12_DisconnectedFirstCandidate ==
    (Disconnected /\ NodeNonEmpty) =>
        /\ ac3ret # Some(FALSE)
        /\ Tried => call.outcome = "True"
        /\ Done => ret # None

\* C12 as amended: on such a puzzle ac3() returns true and a value is rejected
\* only when another slot already holds that word; when the slots' lengths
\* are pairwise different no value is rejected and solve() returns an
\* assignment.
C12_DisconnectedRejectsOnlyDuplicates ==
    (Disconnected /\ NodeNonEmpty) =>
        /\ ac3ret # Some(FALSE)
        /\ (Tried /\ call.outcome # "True") =>
               /\ call.outcome = "False"
               /\ \E k \in 1..Len(call.base) : call.base[k][2] = call.value
        /\ DistinctLengths =>
               /\ Tried => call.outcome = "True"
               /\ Done => ret # None

\* solve() has returned an assignment for two or more disconnected slots of
\* different lengths.
C12_Witness ==
    /\ Disconnected /\ NodeNonEmpty /\ DistinctLengths
    /\ Cardinality(variables) >= 2
    /\ Done /\ ret # None /\ Tried

SelectReturned == call.op = "select" /\ pc = "returned"

\* C13: select_unassigned_variable returns a slot that is not assigned, whose
\* domain is of minimal size among the unassigned slots, and which has the
\* most neighbors among the unassigned slots of that minimal size.
C13_SelectMrvThenDegree ==
    SelectReturned =>
        LET var == call.result[1]
            unassigned == variables \ Keys(call.assignment)
        IN  /\ var \in unassigned
            /\ \A u \in unassigned : Cardinality(domains[var]) <= Cardinality(domains[u])
            /\ \A u \in unassigned :
                 Cardinality(domains[u]) = Cardinality(domains[var]) =>
                     Cardinality(Neighbors(variables, u))
                         <= Cardinality(Neighbors(variables, var))

\* The degree broke a tie: another unassigned slot has a domain of the same
\* size and fewer neighbors.
C13_Witness ==
    /\ SelectReturned
    /\ \E u \in variables \ Keys(call.assignment) :
         /\ Cardinality(domains[u]) = Cardinality(domains[call.result[1]])
         /\ Cardinality(Neighbors(variables, u))
              < Cardinality(Neighbors(variables, call.result[1]))
    /\ \E u \in variables \ Keys(call.assignment) :
         Cardinality(domains[u]) > Cardinality(domains[call.result[1]])

\* C14: ac3 seeds its queue with exactly the given arcs whenever arcs are
\* given, the empty list included (then no arc is revised, no domain changes
\* and true is returned), and with every arc only when none is given.
C14_SeedsGivenArcs ==
    [][ /\ pc = "ac3" =>
             IF arcs # None THEN queue' = arcs[1]
                            ELSE queue' \in ArcOrders(variables)
        /\ arcs = Some(<<>>) =>
             /\ domains' = domains
             /\ ac3ret' # Some(FALSE) ]_vars

\* C15: solve() terminates; ac3 appends arcs to its queue only after a domain
\* has strictly shrunk; backtrack is never nested deeper than the number of
\* slots below the top-level call, and the assignment of each nested call has
\* exactly one more slot than its caller's.
C15_SolveTerminates ==
    /\ <>Done
    /\ [][ (pc = "ac3_loop" /\ queue # <<>> /\ Len(queue') >= Len(queue)) =>
              \E v \in variables :
                  domains'[v] \subseteq domains[v] /\ domains'[v] # domains[v] ]_vars
    /\ [](/\ Len(stack) - 1 <= Cardinality(variables)
          /\ \A k \in 1..Len(stack) : Len(heap[stack[k].asg]) = k - 1)

\* The search is nested as deep as the puzzle has slots, after ac3 had
\* appended an arc to its queue.
C15_Witness ==
    /\ Cardinality(variables) >= 2
    /\ Len(stack) = Cardinality(variables) + 1
    /\ \E v \in variables : Cardinality(Neighbors(variables, v)) >= 2
    /\ \E v \in variables :
         domains[v] # NodeConsistent(InitDomains(variables, words))[v]

\* C16: when add_knowledge is only given cells without a mine and their true
\* counts, every cell of safes holds no mine and every cell of mines holds a
\* mine, so a cell returned by make_safe_move holds no mine and has not been
\* played.
C16_MinesweeperSound ==
    game # "none" =>
        /\ \A c \in safes : c \notin board
        /\ \A c \in mines : c \in board
        /\ move # None => (move[1] \notin board /\ move[1] \notin moves_made)
====
